---- MODULE Spec2Model ----
(***************************************************************************)
(* Model of the InterWild auxiliary components:                            *)
(*   common/nets/loss.py   axis_angle_to_matrix, matrix_to_axis_angle,     *)
(*                         CoordLoss.forward, PoseLoss.forward             *)
(*   common/utils/mano.py  the MANO joint tables                           *)
(*   common/utils/vis.py   vis_keypoints_with_skeleton                     *)
(* Tensors are sequences (1-based: channel z, index 2 in the code, is      *)
(* index 3 here).                                                          *)
(***************************************************************************)
EXTENDS Integers, Sequences, FiniteSets

VARIABLES
    cl_pc,        \* CoordLoss.forward: "call" before, "done" after the call
    coord_out,    \* (B, J, 3) predicted coordinates
    coord_gt,     \* (B, J, 3) ground-truth coordinates
    valid,        \* (B, J, 3) validity mask
    is_3D,        \* (B,) integer flags
    cl_loss       \* (B, J, 3) result of CoordLoss.forward

cl_vars == <<cl_pc, coord_out, coord_gt, valid, is_3D, cl_loss>>

VARIABLES
    vis_pc,       \* vis_keypoints_with_skeleton: "call", "loop", "done", "raised"
    vis_color,    \* the color argument: a BGR triple or None
    vis_kps,      \* the kps argument: one (x, y) row per joint, in tenths of a pixel
    vis_colors,   \* the local list colors
    vis_l,        \* the loop variable l
    vis_drawn     \* kp_mask: the lines drawn so far, each with its points and color

vis_vars == <<vis_pc, vis_color, vis_kps, vis_colors, vis_l, vis_drawn>>

VARIABLES
    aa_pc,        \* the conversions: "call", "matrix" (after axis_angle_to_matrix),
                  \* "back" (after matrix_to_axis_angle)
    aa_dims,      \* batch_dims of the input: <<B>> or <<B, N>>
    axis_angle,   \* the (B, 3) or (B, N, 3) input of axis_angle_to_matrix
    aa_matrix,    \* its (B, 3, 3) or (B, N, 3, 3) result
    aa_back       \* matrix_to_axis_angle of that result

aa_vars == <<aa_pc, aa_dims, axis_angle, aa_matrix, aa_back>>

VARIABLES
    pl_pc,        \* PoseLoss.forward: "idle", "call" or "done"
    pose_out,     \* (B, J*3) predicted axis-angle poses
    pose_gt,      \* (B, J*3) ground-truth axis-angle poses
    pose_valid,   \* (B, J) mask
    pl_loss       \* the (B, J, 3, 3) tensor returned

pl_vars == <<pl_pc, pose_out, pose_gt, pose_valid, pl_loss>>

vars == <<cl_vars, vis_vars, aa_vars, pl_vars>>

(***************************************************************************)
(* IEEE-754 floating point, as far as CoordLoss needs it: a finite value   *)
(* (an integer of magnitude at most FloatMax, the largest finite value of  *)
(* the format, scaled down), an infinity or NaN.  A finite result beyond   *)
(* FloatMax overflows to the infinity of its sign; inf - inf and inf * 0   *)
(* are NaN.  The sign of zero is not kept (-0.0 == 0.0 in the code too).   *)
(***************************************************************************)
FloatMax == 4

Fin(n) == [cls |-> "fin", val |-> n]
Inf(s) == [cls |-> "inf", val |-> s]
NaN == [cls |-> "nan", val |-> 0]

IsFinite(a) == a.cls = "fin"

Sgn(n) == IF n > 0 THEN 1 ELSE IF n < 0 THEN -1 ELSE 0

Abs(n) == IF n < 0 THEN -n ELSE n

\* Rounding of an exact finite result into the format.
FRound(n) == IF Abs(n) > FloatMax THEN Inf(Sgn(n)) ELSE Fin(n)

\* a - b
FSub(a, b) ==
    IF a.cls = "nan" \/ b.cls = "nan" THEN NaN
    ELSE IF a.cls = "inf" /\ b.cls = "inf"
         THEN IF a.val = b.val THEN NaN ELSE a
    ELSE IF a.cls = "inf" THEN a
    ELSE IF b.cls = "inf" THEN Inf(-b.val)
    ELSE FRound(a.val - b.val)

\* torch.abs
FAbs(a) ==
    IF a.cls = "nan" THEN NaN
    ELSE IF a.cls = "inf" THEN Inf(1)
    ELSE Fin(Abs(a.val))

\* a * b
FMul(a, b) ==
    IF a.cls = "nan" \/ b.cls = "nan" THEN NaN
    ELSE IF a.cls = "inf" \/ b.cls = "inf"
         THEN IF a.val = 0 \/ b.val = 0 THEN NaN
              ELSE Inf(Sgn(a.val) * Sgn(b.val))
    ELSE FRound(a.val * b.val)

\* Tensor.float() of an integer flag
ToFloat(n) == Fin(n)

(***************************************************************************)
(* CoordLoss.forward                                                       *)
(***************************************************************************)
\* a mask that is never applied
CoordLoss_masked_unmasked(out, gt, v) ==
    [b \in DOMAIN out |->
        [j \in DOMAIN out[b] |->
            [c \in 1..3 |-> FAbs(FSub(out[b][j][c], gt[b][j][c]))]]]

\* loss = torch.abs(coord_out - coord_gt) * valid
CoordLoss_masked(out, gt, v) ==
    [b \in DOMAIN out |->
        [j \in DOMAIN out[b] |->
            [c \in 1..3 |-> FMul(FAbs(FSub(out[b][j][c], gt[b][j][c])), v[b][j][c])]]]

\* is_3D left out of the z channel
CoordLoss_loss_z_ungated(loss, flags) ==
    [b \in DOMAIN loss |-> [j \in DOMAIN loss[b] |-> <<loss[b][j][3]>>]]

\* loss_z = loss[:,:,2:] * is_3D[:,None,None].float()
CoordLoss_loss_z(loss, flags) ==
    [b \in DOMAIN loss |->
        [j \in DOMAIN loss[b] |-> <<FMul(loss[b][j][3], ToFloat(flags[b]))>>]]

\* torch.cat((loss[:,:,:2], loss_z), 2)
CoordLoss_forward(out, gt, v, flags) ==
    LET loss == CoordLoss_masked(out, gt, v)
        loss_z == CoordLoss_loss_z(loss, flags)
    IN [b \in DOMAIN loss |->
           [j \in DOMAIN loss[b] |-> SubSeq(loss[b][j], 1, 2) \o loss_z[b][j]]]

\* The inputs the model draws: coordinates up to the largest finite value,
\* 0/1 masks, integer flags; batches of 2 items of 1 joint and of 1 item of
\* 2 joints.
CoordVals == {-FloatMax, 1, FloatMax}
CoordTriples == {<<Fin(x), Fin(1), Fin(z)>> : x \in {0, FloatMax}, z \in CoordVals}
GtTriples == {<<Fin(x), Fin(0), Fin(z)>> : x \in {0}, z \in {-FloatMax, 1}}
ValidTriples == {<<Fin(0), Fin(0), Fin(0)>>, <<Fin(1), Fin(1), Fin(1)>>,
                 <<Fin(1), Fin(0), Fin(1)>>}
Flags == {0, 1, 2}
Shapes == {<<2, 1>>, <<1, 2>>}

Tensor(shape, elems) == [1..shape[1] -> [1..shape[2] -> elems]]

NoTensor == <<>>

CoordLossInit ==
    /\ cl_pc = "call"
    /\ \E shape \in Shapes :
          /\ coord_out \in Tensor(shape, CoordTriples)
          /\ coord_gt \in Tensor(shape, GtTriples)
          /\ valid \in Tensor(shape, ValidTriples)
          /\ is_3D \in [1..shape[1] -> Flags]
    /\ cl_loss = NoTensor

CoordLossIdle ==
    /\ cl_pc = "idle"
    /\ coord_out = NoTensor
    /\ coord_gt = NoTensor
    /\ valid = NoTensor
    /\ is_3D = NoTensor
    /\ cl_loss = NoTensor

CoordLossForward ==
    /\ cl_pc = "call"
    /\ cl_loss' = CoordLoss_forward(coord_out, coord_gt, valid, is_3D)
    /\ cl_pc' = "done"
    /\ UNCHANGED <<coord_out, coord_gt, valid, is_3D>>
    /\ UNCHANGED <<vis_vars, aa_vars, pl_vars>>

(***************************************************************************)
(* float32 numbers of the rotation code.  A number is an integer count of  *)
(* 1e-8 (so Eps, the code's 1e-8, is 1), and every operation rounds its    *)
(* result to a 24-bit significand like float32 does (Fl).  Magnitudes stay *)
(* below about 4.6, which bounds the angles the model feeds in.  Beyond    *)
(* the numbers there are Huge (a finite float so large that the norm of a  *)
(* vector of them is more than float32 can hold), Infinite and Invalid     *)
(* (inf and nan).                                                          *)
(***************************************************************************)
Myriad == 100 * 100

Scale == Myriad * Myriad

One == Scale

Top == 2 ^ 30

Huge == Top

Infinite == Top + 1

Invalid == Top + 2

IsNum(x) == -Top < x /\ x < Top

IsInfinite(x) == x = Infinite \/ x = -Infinite

Neg(x) == IF x = Invalid THEN Invalid ELSE -x

\* torch.abs
AbsF(x) == IF x = Invalid THEN Invalid ELSE Abs(x)

\* a < b of floats: false as soon as one side is nan
Less(a, b) == a # Invalid /\ b # Invalid /\ a < b

\* the spacing of 24-bit significands at magnitude m
Quantum(m) ==
    IF m < 16777216 THEN 1
    ELSE IF m < 33554432 THEN 2
    ELSE IF m < 67108864 THEN 4
    ELSE IF m < 134217728 THEN 8
    ELSE IF m < 268435456 THEN 16
    ELSE IF m < 536870912 THEN 32
    ELSE IF m < 1073741824 THEN 64
    ELSE 128

\* a multiple lo of the spacing q and a remainder r, to the nearest multiple,
\* ties to the even one
RoundRem(lo, r, q) ==
    IF 2 * r > q \/ (2 * r = q /\ (lo \div q) % 2 = 1) THEN lo + q ELSE lo

RoundTo(m, q) == RoundRem(m - (m % q), m % q, q)

\* round to the nearest 24-bit significand, ties to even
Fl(v) == Sgn(v) * RoundTo(Abs(v), Quantum(Abs(v)))

\* a * b to the nearest 1e-8, by 4-digit halves (no 32-bit overflow): the
\* product is hi * 10^8 + t * 10^4 + lo in units of 1e-16
MulSum(hi, t, lo) ==
    hi + t \div Myriad + ((t % Myriad) * Myriad + lo + (Scale \div 2)) \div Scale

MulParts(a1, a0, b1, b0) == MulSum(a1 * b1, a1 * b0 + a0 * b1, a0 * b0)

MulMag(ma, mb) == MulParts(ma \div Myriad, ma % Myriad, mb \div Myriad, mb % Myriad)

MulRaw(a, b) == Sgn(a) * Sgn(b) * MulMag(Abs(a), Abs(b))

\* a * b: nan spreads, 0 * inf is nan, a product of two huge values or with
\* an infinite one is infinite (a huge value times a number is left huge)
Mul(a, b) ==
    IF a = Invalid \/ b = Invalid THEN Invalid
    ELSE IF IsNum(a) /\ IsNum(b) THEN Fl(MulRaw(a, b))
    ELSE IF a = 0 \/ b = 0 THEN IF IsInfinite(a) \/ IsInfinite(b) THEN Invalid ELSE 0
    ELSE IF IsNum(a) /\ ~IsInfinite(b) THEN Sgn(a) * b
    ELSE IF IsNum(b) /\ ~IsInfinite(a) THEN Sgn(b) * a
    ELSE Sgn(a) * Sgn(b) * Infinite

\* a + b: nan spreads, inf - inf is nan, huge + huge overflows
Add(a, b) ==
    IF a = Invalid \/ b = Invalid THEN Invalid
    ELSE IF IsNum(a) /\ IsNum(b) THEN Fl(a + b)
    ELSE IF IsNum(b) THEN a
    ELSE IF IsNum(a) THEN b
    ELSE IF Sgn(a) = Sgn(b) THEN Sgn(a) * Infinite
    ELSE IF IsInfinite(a) /\ IsInfinite(b) THEN Invalid
    ELSE IF IsInfinite(a) THEN a
    ELSE IF IsInfinite(b) THEN b
    ELSE 0

Sub(a, b) == Add(a, Neg(b))

\* <<quotient, remainder>> of 2 * (q * b + r) by b, for 0 <= r < b
Twice(qr, b) ==
    IF 2 * qr[2] >= b THEN <<2 * qr[1] + 1, 2 * qr[2] - b>> ELSE <<2 * qr[1], 2 * qr[2]>>

\* <<quotient, remainder>> of d8 + d2 = (8 + 2) * r by b
TenOf(d8, d2, b) ==
    IF d8[2] + d2[2] >= b THEN <<d8[1] + d2[1] + 1, d8[2] + d2[2] - b>>
    ELSE <<d8[1] + d2[1], d8[2] + d2[2]>>

EightOf(d2, b) == TenOf(Twice(Twice(d2, b), b), d2, b)

\* <<quotient, remainder>> of 10 * r by b, for 0 <= r < b
Times10(r, b) == EightOf(Twice(<<0, r>>, b), b)

\* the quotient so far and the next digit d = <<digit, remainder>>
NextDigit(st, d) == <<st[1] - 1, 10 * st[2] + d[1], d[2]>>

\* n more decimal digits of a quotient by b: st is <<n, quotient so far,
\* remainder>>, and the last digit is rounded
RECURSIVE Digits(_, _)
Digits(st, b) ==
    IF st[1] = 0 THEN IF 2 * st[3] >= b THEN st[2] + 1 ELSE st[2]
    ELSE Digits(NextDigit(st, Times10(st[3], b)), b)

DivMag(ma, mb) == Digits(<<8, ma \div mb, ma % mb>>, mb)

\* a / b to the nearest 1e-8, by long division
DivRaw(a, b) == Sgn(a) * Sgn(b) * DivMag(Abs(a), Abs(b))

\* a / b: nan spreads, anything finite over inf is 0, inf / inf and 0 / 0 are nan
Div(a, b) ==
    IF a = Invalid \/ b = Invalid THEN Invalid
    ELSE IF IsInfinite(b) THEN IF IsInfinite(a) THEN Invalid ELSE 0
    ELSE IF IsInfinite(a) THEN Sgn(a) * (IF b < 0 THEN -1 ELSE 1) * Infinite
    ELSE IF b = 0 THEN IF a = 0 THEN Invalid ELSE Sgn(a) * Infinite
    ELSE IF IsNum(a) /\ IsNum(b) THEN Fl(DivRaw(a, b))
    ELSE IF IsNum(a) THEN 0
    ELSE IF IsNum(b) THEN Sgn(a) * Sgn(b) * Huge
    ELSE Sgn(a) * Sgn(b) * One

\* An exact square or sum of squares, in units of 1e-16, as <<high, low>>
\* with value high * 10^9 + low and 0 <= low < 10^9.
Giga == 10 * Scale

Carry(hi, lo) == <<hi + lo \div Giga, lo % Giga>>

\* (m1 * 10^4 + m0)^2 from hh = m1 * m1, mid = 2 * m1 * m0 and ll = m0 * m0
SquareSum(hh, mid, ll) ==
    Carry(hh \div 10 + mid \div 100000, (hh % 10) * Scale + (mid % 100000) * Myriad + ll)

SquareParts(m1, m0) == SquareSum(m1 * m1, 2 * m1 * m0, m0 * m0)

SquareMag(m) == SquareParts(m \div Myriad, m % Myriad)

Square(v) == SquareMag(Abs(v))

Plus(p, q) == Carry(p[1] + q[1], p[2] + q[2])

Leq(p, q) == p[1] < q[1] \/ (p[1] = q[1] /\ p[2] <= q[2])

\* whether c * c <= t, for a candidate root c
RootFits(t, c) == c <= 46340 * Myriad /\ Leq(Square(c), t)

\* the largest digit d with (lo + d * w)^2 <= t
RootDigit(t, lo, w) ==
    IF RootFits(t, lo + 5 * w)
    THEN IF RootFits(t, lo + 7 * w)
         THEN IF RootFits(t, lo + 8 * w)
              THEN IF RootFits(t, lo + 9 * w) THEN 9 ELSE 8
              ELSE 7
         ELSE IF RootFits(t, lo + 6 * w) THEN 6 ELSE 5
    ELSE IF RootFits(t, lo + 2 * w)
         THEN IF RootFits(t, lo + 3 * w)
              THEN IF RootFits(t, lo + 4 * w) THEN 4 ELSE 3
              ELSE 2
         ELSE IF RootFits(t, lo + w) THEN 1 ELSE 0

\* the root n found, rounded up when (n + 1/2)^2 = n^2 + n + 1/4 < t
RootRound(t, n, h) == IF Leq(h, t) /\ h # t THEN n + 1 ELSE n

\* the square root of t to the nearest 1e-8, digit by digit: st is <<the
\* place of the next digit, the root so far>>
RECURSIVE SqrtDigits(_, _)
SqrtDigits(t, st) ==
    IF st[1] = 0 THEN RootRound(t, st[2], Plus(Square(st[2]), <<0, st[2]>>))
    ELSE SqrtDigits(t, <<st[1] \div 10, st[2] + RootDigit(t, st[2], st[1]) * st[1]>>)

SqrtRaw(t) == IF t = <<0, 0>> THEN 0 ELSE SqrtDigits(t, <<Scale, 0>>)

\* torch.norm(v, dim=1) of a 3-vector: the square of a huge component
\* overflows, so the norm is inf
Norm(v) ==
    IF v[1] = Invalid \/ v[2] = Invalid \/ v[3] = Invalid THEN Invalid
    ELSE IF IsNum(v[1]) /\ IsNum(v[2]) /\ IsNum(v[3])
         THEN Fl(SqrtRaw(Plus(Plus(Square(v[1]), Square(v[2])), Square(v[3]))))
    ELSE Infinite

Pi == 314159265

\* the series of cos and sin in x2 = x * x, for |x| <= pi / 2, summed from
\* the last term: ka is <<k + 1, the sum of the terms from k + 1 on>>
CosTerm(x2, k, acc) == <<k, One - MulRaw(x2, acc) \div ((2 * k - 1) * (2 * k))>>

RECURSIVE CosTerms(_, _)
CosTerms(x2, ka) ==
    IF ka[1] = 1 THEN ka[2] ELSE CosTerms(x2, CosTerm(x2, ka[1] - 1, ka[2]))

SinTerm(x2, k, acc) == <<k, One - MulRaw(x2, acc) \div ((2 * k) * (2 * k + 1))>>

RECURSIVE SinTerms(_, _)
SinTerms(x2, ka) ==
    IF ka[1] = 1 THEN ka[2] ELSE SinTerms(x2, SinTerm(x2, ka[1] - 1, ka[2]))

\* an angle brought into [-pi, pi]
RECURSIVE Reduce(_)
Reduce(a) ==
    IF a > Pi THEN Reduce(a - 2 * Pi)
    ELSE IF a < -Pi THEN Reduce(a + 2 * Pi)
    ELSE a

\* cos and sin of m in [0, pi / 2]
CosSeries(m) == CosTerms(MulRaw(m, m), <<10, One>>)

SinSeries(m) == MulRaw(m, SinTerms(MulRaw(m, m), <<10, One>>))

\* cos and sin of m in [0, pi]: cos(m) = -cos(pi - m), sin(m) = sin(pi - m)
CosMag(m) == IF 2 * m > Pi THEN -CosSeries(Pi - m) ELSE CosSeries(m)

SinMag(m) == IF 2 * m > Pi THEN SinSeries(Pi - m) ELSE SinSeries(m)

SinOdd(xr) == Sgn(xr) * SinMag(Abs(xr))

CosRaw(a) == CosMag(Abs(Reduce(a)))

SinRaw(a) == SinOdd(Reduce(a))

\* torch.cos, torch.sin of an angle, which is a norm or an arc cosine: a
\* number, or inf or nan, whose cosine and sine are nan
Cos(a) == IF IsNum(a) THEN Fl(CosRaw(a)) ELSE Invalid

Sin(a) == IF IsNum(a) THEN Fl(SinRaw(a)) ELSE Invalid

\* one Newton step from phi towards the angle whose sine is s
AsinStep(s, n, phi) == <<n, phi + DivRaw(s - SinRaw(phi), CosRaw(phi))>>

\* Newton steps: st is <<the steps left, the angle so far>>
RECURSIVE AsinSteps(_, _)
AsinSteps(s, st) ==
    IF st[1] = 0 THEN st[2] ELSE AsinSteps(s, AsinStep(s, st[1] - 1, st[2]))

\* asin(s) for 0 <= s <= sqrt(1/2): the angle in [0, pi/4] whose sine is s
AsinRaw(s) == AsinSteps(s, <<4, s>>)

\* sqrt(y / 2) for 0 <= y <= 1
SqrtHalf(y) == SqrtRaw(<<y \div 20, (y % 20) * (Scale \div 2)>>)

\* twice the angle whose sine is sqrt(y / 2)
HalfAngle(y) == 2 * AsinRaw(SqrtHalf(y))

\* acos(c) for -1 <= c <= 1, by the half angle: sin(t/2) = sqrt((1 - c) / 2),
\* cos(t/2) = sqrt((1 + c) / 2)
AcosRaw(c) == IF c >= 0 THEN HalfAngle(One - c) ELSE Pi - HalfAngle(One + c)

\* torch.acos of a value clamped to [-1, 1], or of nan
Acos(c) == IF IsNum(c) THEN Fl(AcosRaw(c)) ELSE Invalid

\* torch.clamp(x, lo, hi): nan stays nan
Clamp(x, lo, hi) ==
    IF x = Invalid THEN Invalid
    ELSE IF x < lo THEN lo ELSE IF x > hi THEN hi ELSE x

\* x / 2
Halve(x) == IF IsNum(x) THEN Fl(Sgn(x) * ((Abs(x) + 1) \div 2)) ELSE x

(***************************************************************************)
(* loss.py: axis_angle_to_matrix and matrix_to_axis_angle.  A batch is the *)
(* nested tensor together with its batch_dims, <<B>> or <<B, N>>.          *)
(***************************************************************************)
Eps == 1

SmallAngle == 100000

Identity3 == <<<<One, 0, 0>>, <<0, One, 0>>, <<0, 0, One>>>>

\* the rows of a (B, N, ...) tensor one after the other
RECURSIVE Concat(_)
Concat(t) == IF t = <<>> THEN <<>> ELSE Head(t) \o Concat(Tail(t))

\* t.reshape(-1, k...): the entries of a (B, ...) or (B, N, ...) tensor in a row
Flatten(t, dims) == IF Len(dims) = 1 THEN t ELSE Concat(t)

\* a row of entries cut into rows of n
RECURSIVE Rows(_, _)
Rows(flat, n) ==
    IF flat = <<>> THEN <<>>
    ELSE <<SubSeq(flat, 1, n)>> \o Rows(SubSeq(flat, n + 1, Len(flat)), n)

\* flat.reshape(batch_dims + (k, ...))
Unflatten(flat, dims) == IF Len(dims) = 1 THEN flat ELSE Rows(flat, dims[2])

\* angle = torch.norm(axis_angle, dim=1, keepdim=True)
RECURSIVE a2m_angle(_)
a2m_angle(flat) ==
    IF flat = <<>> THEN <<>>
    ELSE <<Norm(Head(flat))>> \o a2m_angle(Tail(flat))

\* an axis left at the length of the input vector
a2m_axis_unnormalised(flat, angle) == flat

\* v / d, component by component
Over(v, d) == <<Div(v[1], d), Div(v[2], d), Div(v[3], d)>>

\* axis = axis_angle / (angle + 1e-8)
RECURSIVE a2m_axis(_, _)
a2m_axis(flat, angle) ==
    IF flat = <<>> THEN <<>>
    ELSE <<Over(Head(flat), Add(Head(angle), Eps))>> \o a2m_axis(Tail(flat), Tail(angle))

\* the transpose of the cross product matrix
CrossT(a) == << <<0, a[3], Neg(a[2])>>, <<Neg(a[3]), 0, a[1]>>, <<a[2], Neg(a[1]), 0>> >>

\* the cross product matrix with its two triangles exchanged
RECURSIVE a2m_K_transposed(_)
a2m_K_transposed(axis) ==
    IF axis = <<>> THEN <<>>
    ELSE <<CrossT(Head(axis))>> \o a2m_K_transposed(Tail(axis))

\* [[0, -az, ay], [az, 0, -ax], [-ay, ax, 0]]
Cross(a) == << <<0, Neg(a[3]), a[2]>>, <<a[3], 0, Neg(a[1])>>, <<Neg(a[2]), a[1], 0>> >>

\* lines 32-38: the cross product matrix K (K[:, 0, 1] is K[1][2] here)
RECURSIVE a2m_K(_)
a2m_K(axis) ==
    IF axis = <<>> THEN <<>>
    ELSE <<Cross(Head(axis))>> \o a2m_K(Tail(axis))

\* one entry of torch.bmm(A, B)
Dot(A, B, i, j) ==
    Add(Add(Mul(A[i][1], B[1][j]), Mul(A[i][2], B[2][j])), Mul(A[i][3], B[3][j]))

\* torch.bmm(A, B) for one pair of 3x3 matrices
MatMul(A, B) ==
    << <<Dot(A, B, 1, 1), Dot(A, B, 1, 2), Dot(A, B, 1, 3)>>,
       <<Dot(A, B, 2, 1), Dot(A, B, 2, 2), Dot(A, B, 2, 3)>>,
       <<Dot(A, B, 3, 1), Dot(A, B, 3, 2), Dot(A, B, 3, 3)>> >>

\* one entry of I + sin * K + (1 - cos) * KK
RodriguesEntry(s, omc, K, KK, r, c) ==
    Add(Add(Identity3[r][c], Mul(s, K[r][c])), Mul(omc, KK[r][c]))

\* I + sin * K + (1 - cos) * KK for one entry of the batch
Rodrigues(s, omc, K, KK) ==
    << <<RodriguesEntry(s, omc, K, KK, 1, 1), RodriguesEntry(s, omc, K, KK, 1, 2),
         RodriguesEntry(s, omc, K, KK, 1, 3)>>,
       <<RodriguesEntry(s, omc, K, KK, 2, 1), RodriguesEntry(s, omc, K, KK, 2, 2),
         RodriguesEntry(s, omc, K, KK, 2, 3)>>,
       <<RodriguesEntry(s, omc, K, KK, 3, 1), RodriguesEntry(s, omc, K, KK, 3, 2),
         RodriguesEntry(s, omc, K, KK, 3, 3)>> >>

\* R = I + sin_angle.unsqueeze(2) * K + (1 - cos_angle).unsqueeze(2) * torch.bmm(K, K)
RECURSIVE a2m_rodrigues(_, _)
a2m_rodrigues(angle, K) ==
    IF K = <<>> THEN <<>>
    ELSE <<Rodrigues(Sin(Head(angle)), Sub(One, Cos(Head(angle))), Head(K),
                     MatMul(Head(K), Head(K)))>>
         \o a2m_rodrigues(Tail(angle), Tail(K))

\* whether any entry of the batch has a small angle
RECURSIVE AnySmall(_)
AnySmall(angle) ==
    IF angle = <<>> THEN FALSE
    ELSE Less(Head(angle), SmallAngle) \/ AnySmall(Tail(angle))

\* one branch for the whole batch: small as soon as any entry is
RECURSIVE Fill(_, _)
Fill(angle, x) == IF angle = <<>> THEN <<>> ELSE <<x>> \o Fill(Tail(angle), x)

a2m_small_angle_mask_any(angle) == Fill(angle, AnySmall(angle))

\* small_angle_mask = (angle.squeeze(1) < 1e-3)
RECURSIVE a2m_small_angle_mask(_)
a2m_small_angle_mask(angle) ==
    IF angle = <<>> THEN <<>>
    ELSE <<Less(Head(angle), SmallAngle)>> \o a2m_small_angle_mask(Tail(angle))

\* torch.where(mask, A, B), the mask broadcast over each entry
RECURSIVE Where(_, _, _)
Where(mask, A, B) ==
    IF mask = <<>> THEN <<>>
    ELSE <<IF Head(mask) THEN Head(A) ELSE Head(B)>> \o Where(Tail(mask), Tail(A), Tail(B))

\* lines 24-46 on the flattened batch
a2m_where(flat, angle) ==
    Where(a2m_small_angle_mask(angle), Fill(flat, Identity3),
          a2m_rodrigues(angle, a2m_K(a2m_axis(flat, angle))))

a2m_flat(flat) == a2m_where(flat, a2m_angle(flat))

axis_angle_to_matrix(t, batch_dims) == Unflatten(a2m_flat(Flatten(t, batch_dims)), batch_dims)

\* (trace - 1) / 2 clamped, and its arc cosine
TraceAngle(m) ==
    Acos(Clamp(Halve(Sub(Add(Add(m[1][1], m[2][2]), m[3][3]), One)), -One, One))

\* angle = torch.acos(torch.clamp((trace - 1) / 2, -1, 1))
RECURSIVE m2a_angle(_)
m2a_angle(flat) ==
    IF flat = <<>> THEN <<>>
    ELSE <<TraceAngle(Head(flat))>> \o m2a_angle(Tail(flat))

SkewReversed(m) == <<Sub(m[2][3], m[3][2]), Sub(m[3][1], m[1][3]), Sub(m[1][2], m[2][1])>>

\* the differences taken the other way round
RECURSIVE m2a_axis_reversed(_)
m2a_axis_reversed(flat) ==
    IF flat = <<>> THEN <<>>
    ELSE <<SkewReversed(Head(flat))>> \o m2a_axis_reversed(Tail(flat))

Skew(m) == <<Sub(m[3][2], m[2][3]), Sub(m[1][3], m[3][1]), Sub(m[2][1], m[1][2])>>

\* lines 67-71: the axis from the skew part (matrix[:, 2, 1] is m[3][2] here)
RECURSIVE m2a_axis(_)
m2a_axis(flat) ==
    IF flat = <<>> THEN <<>>
    ELSE <<Skew(Head(flat))>> \o m2a_axis(Tail(flat))

\* axis_norm = torch.norm(axis, dim=1, keepdim=True); axis = axis / (axis_norm + 1e-8)
RECURSIVE m2a_normalize(_)
m2a_normalize(axis) ==
    IF axis = <<>> THEN <<>>
    ELSE <<Over(Head(axis), Add(Norm(Head(axis)), Eps))>> \o m2a_normalize(Tail(axis))

\* t * a, component by component
Scaled(t, a) == <<Mul(t, a[1]), Mul(t, a[2]), Mul(t, a[3])>>

\* axis_angle = angle.unsqueeze(1) * axis
RECURSIVE m2a_scale(_, _)
m2a_scale(angle, axis) ==
    IF axis = <<>> THEN <<>>
    ELSE <<Scaled(Head(angle), Head(axis))>> \o m2a_scale(Tail(angle), Tail(axis))

ZeroVec == <<0, 0, 0>>

\* lines 63-82 on the flattened batch
m2a_where(flat, angle) ==
    Where(a2m_small_angle_mask(angle), Fill(flat, ZeroVec),
          m2a_scale(angle, m2a_normalize(m2a_axis(flat))))

m2a_flat(flat) == m2a_where(flat, m2a_angle(flat))

matrix_to_axis_angle(t, batch_dims) == Unflatten(m2a_flat(Flatten(t, batch_dims)), batch_dims)

\* The vectors the model feeds in: a grid of components, and vectors at the
\* cases of the code (zero, either side of 1e-3, the ends of the round-trip
\* range, a quarter turn about z, an angle beyond pi, a huge vector).
GridMax == 2

GridStep == 65 * 1000000

GridVals == {Fl(k * GridStep) : k \in (-GridMax)..GridMax}

GridVecs == {<<x, y, z>> : x \in GridVals, y \in GridVals, z \in GridVals}

HugeVec == <<Huge, Huge, Huge>>

QuarterTurnZ == <<0, 0, Fl(157079633)>>

KeyVecs ==
    { ZeroVec, QuarterTurnZ,
      <<Fl(99900), 0, 0>>, <<100000, 0, 0>>, <<0, -60000, 60000>>,
      <<Fl(1010000), 0, 0>>, <<Fl(-600000), Fl(600000), Fl(600000)>>,
      <<0, Fl(313100000), 0>>,
      <<Fl(305695438), Fl(-57467651), Fl(-36232367)>>,
      <<0, 0, Fl(400000000)>>, HugeVec }

Batches1 == {<<v>> : v \in GridVecs \cup KeyVecs}

\* the vectors mixed in batches of two: both sides of the 1e-3 threshold, a
\* plain rotation and a huge vector
MixVecs == {ZeroVec, <<Fl(99900), 0, 0>>, <<100000, 0, 0>>, QuarterTurnZ, HugeVec}

Batches2 == {<<v, w>> : v \in MixVecs, w \in MixVecs}

ConvInit ==
    /\ aa_pc = "call"
    /\ \/ aa_dims = <<1>> /\ axis_angle \in Batches1
       \/ aa_dims = <<2>> /\ axis_angle \in Batches2
       \/ aa_dims = <<1, 2>> /\ axis_angle \in {<<b>> : b \in Batches2}
    /\ aa_matrix = NoTensor
    /\ aa_back = NoTensor

ConvIdle ==
    /\ aa_pc = "idle"
    /\ aa_dims = <<>>
    /\ axis_angle = NoTensor
    /\ aa_matrix = NoTensor
    /\ aa_back = NoTensor

AxisAngleToMatrix ==
    /\ aa_pc = "call"
    /\ aa_matrix' = axis_angle_to_matrix(axis_angle, aa_dims)
    /\ aa_pc' = "matrix"
    /\ UNCHANGED <<aa_dims, axis_angle, aa_back>>
    /\ UNCHANGED <<cl_vars, vis_vars, pl_vars>>

MatrixToAxisAngle ==
    /\ aa_pc = "matrix"
    /\ aa_back' = matrix_to_axis_angle(aa_matrix, aa_dims)
    /\ aa_pc' = "back"
    /\ UNCHANGED <<aa_dims, axis_angle, aa_matrix>>
    /\ UNCHANGED <<cl_vars, vis_vars, pl_vars>>

(***************************************************************************)
(* loss.py: PoseLoss.forward.                                              *)
(***************************************************************************)
\* pose.view(batch_size, -1, 3): each row of J*3 numbers cut into J vectors
RECURSIVE PoseLoss_view(_)
PoseLoss_view(pose) ==
    IF pose = <<>> THEN <<>>
    ELSE <<Rows(Head(pose), 3)>> \o PoseLoss_view(Tail(pose))

\* the difference taken against the transposed ground truth
PoseLoss_diff_transposed(Ro, Rg, r, c) == Sub(Ro[r][c], Rg[c][r])

\* pose_out - pose_gt, at one entry of one joint's matrices
PoseLoss_diff(Ro, Rg, r, c) == Sub(Ro[r][c], Rg[r][c])

\* the absolute difference alone
PoseLoss_masked_unmasked(d, v) == AbsF(d)

\* torch.abs(...) * pose_valid[:,:,None,None], at one entry
PoseLoss_masked(d, v) == Mul(AbsF(d), v)

PoseLoss_entry(Ro, Rg, v, r, c) == PoseLoss_masked(PoseLoss_diff(Ro, Rg, r, c), v)

\* the 3x3 block of one joint
PoseLoss_block(Ro, Rg, v) ==
    << <<PoseLoss_entry(Ro, Rg, v, 1, 1), PoseLoss_entry(Ro, Rg, v, 1, 2),
         PoseLoss_entry(Ro, Rg, v, 1, 3)>>,
       <<PoseLoss_entry(Ro, Rg, v, 2, 1), PoseLoss_entry(Ro, Rg, v, 2, 2),
         PoseLoss_entry(Ro, Rg, v, 2, 3)>>,
       <<PoseLoss_entry(Ro, Rg, v, 3, 1), PoseLoss_entry(Ro, Rg, v, 3, 2),
         PoseLoss_entry(Ro, Rg, v, 3, 3)>> >>

\* the blocks of the joints of one batch item
RECURSIVE PoseLoss_row(_, _, _)
PoseLoss_row(Ro, Rg, v) ==
    IF Ro = <<>> THEN <<>>
    ELSE <<PoseLoss_block(Head(Ro), Head(Rg), Head(v))>>
         \o PoseLoss_row(Tail(Ro), Tail(Rg), Tail(v))

RECURSIVE PoseLoss_loss(_, _, _)
PoseLoss_loss(Ro, Rg, v) ==
    IF Ro = <<>> THEN <<>>
    ELSE <<PoseLoss_row(Head(Ro), Head(Rg), Head(v))>>
         \o PoseLoss_loss(Tail(Ro), Tail(Rg), Tail(v))

\* pose.view(batch_size, -1, 3) and the conversion of the (B, J, 3) result
PoseLoss_matrices(view) == axis_angle_to_matrix(view, <<Len(view), Len(view[1])>>)

\* The poses the model feeds in: no rotation, a quarter turn, a general
\* rotation and a huge vector, for two joints laid out as (1, 2) or (2, 1).
GeneralVec == <<Fl(-600000), Fl(65000000), Fl(130000000)>>

PoseVecs == {ZeroVec, QuarterTurnZ, GeneralVec, HugeVec}

GtVecs == {ZeroVec, QuarterTurnZ, HugeVec}

MaskVals == {0, One}

\* two joints v, w as a (B, J*3) tensor, and two mask values as (B, J)
Poses(shape, v, w) == IF shape[1] = 1 THEN <<v \o w>> ELSE <<v, w>>

Masks(shape, m, n) == IF shape[1] = 1 THEN <<<<m, n>>>> ELSE <<<<m>>, <<n>>>>

PoseLossInit ==
    /\ pl_pc = "call"
    /\ \E shape \in Shapes :
        /\ pose_out \in {Poses(shape, v, w) : v \in PoseVecs, w \in PoseVecs}
        /\ pose_gt \in {Poses(shape, v, w) : v \in GtVecs, w \in GtVecs}
        /\ pose_valid \in {Masks(shape, m, n) : m \in MaskVals, n \in MaskVals}
    /\ pl_loss = NoTensor

PoseLossIdle ==
    /\ pl_pc = "idle"
    /\ pose_out = NoTensor
    /\ pose_gt = NoTensor
    /\ pose_valid = NoTensor
    /\ pl_loss = NoTensor

PoseLossForward ==
    /\ pl_pc = "call"
    /\ \E R_out \in {PoseLoss_matrices(PoseLoss_view(pose_out))} :
       \E R_gt \in {PoseLoss_matrices(PoseLoss_view(pose_gt))} :
          pl_loss' = PoseLoss_loss(R_out, R_gt, pose_valid)
    /\ pl_pc' = "done"
    /\ UNCHANGED <<pose_out, pose_gt, pose_valid>>
    /\ UNCHANGED <<cl_vars, vis_vars, aa_vars>>

(***************************************************************************)
(* mano.py: the joint tables of MANO.__init__ (joint indices are 0-based,  *)
(* as in the code; a table's k-th entry is at position k + 1).             *)
(***************************************************************************)
sh_joint_num == 21

sh_joints_name ==
    <<"Wrist", "Thumb_1", "Thumb_2", "Thumb_3", "Thumb_4",
      "Index_1", "Index_2", "Index_3", "Index_4",
      "Middle_1", "Middle_2", "Middle_3", "Middle_4",
      "Ring_1", "Ring_2", "Ring_3", "Ring_4",
      "Pinky_1", "Pinky_2", "Pinky_3", "Pinky_4">>

\* a table whose last finger hangs off a joint of the other hand
sh_skeleton_beyond ==
    << <<0,1>>, <<1,2>>, <<2,3>>, <<3,4>>, <<0,5>>, <<5,6>>, <<6,7>>, <<7,8>>,
       <<0,9>>, <<9,10>>, <<10,11>>, <<11,12>>, <<0,13>>, <<13,14>>, <<14,15>>,
       <<15,16>>, <<0,17>>, <<17,18>>, <<18,19>>, <<19,21>> >>

sh_skeleton ==
    << <<0,1>>, <<1,2>>, <<2,3>>, <<3,4>>, <<0,5>>, <<5,6>>, <<6,7>>, <<7,8>>,
       <<0,9>>, <<9,10>>, <<10,11>>, <<11,12>>, <<0,13>>, <<13,14>>, <<14,15>>,
       <<15,16>>, <<0,17>>, <<17,18>>, <<18,19>>, <<19,20>> >>

\* tuple.index(name): the 0-based position of the first occurrence
IndexOf(names, name) ==
    (CHOOSE k \in 1..Len(names) :
        /\ names[k] = name
        /\ \A m \in 1..(k - 1) : names[m] # name) - 1

sh_root_joint_idx == IndexOf(sh_joints_name, "Wrist")

th_joint_num == 42

\* 'R_Wrist', ..., 'L_Pinky_4': each name as its side and the rest after "_"
th_joints_name ==
    <<<<"R", "Wrist">>, <<"R", "Thumb_1">>, <<"R", "Thumb_2">>,
       <<"R", "Thumb_3">>, <<"R", "Thumb_4">>, <<"R", "Index_1">>,
       <<"R", "Index_2">>, <<"R", "Index_3">>, <<"R", "Index_4">>,
       <<"R", "Middle_1">>, <<"R", "Middle_2">>, <<"R", "Middle_3">>,
       <<"R", "Middle_4">>, <<"R", "Ring_1">>, <<"R", "Ring_2">>,
       <<"R", "Ring_3">>, <<"R", "Ring_4">>, <<"R", "Pinky_1">>,
       <<"R", "Pinky_2">>, <<"R", "Pinky_3">>, <<"R", "Pinky_4">>,
       <<"L", "Wrist">>, <<"L", "Thumb_1">>, <<"L", "Thumb_2">>,
       <<"L", "Thumb_3">>, <<"L", "Thumb_4">>, <<"L", "Index_1">>,
       <<"L", "Index_2">>, <<"L", "Index_3">>, <<"L", "Index_4">>,
       <<"L", "Middle_1">>, <<"L", "Middle_2">>, <<"L", "Middle_3">>,
       <<"L", "Middle_4">>, <<"L", "Ring_1">>, <<"L", "Ring_2">>,
       <<"L", "Ring_3">>, <<"L", "Ring_4">>, <<"L", "Pinky_1">>,
       <<"L", "Pinky_2">>, <<"L", "Pinky_3">>, <<"L", "Pinky_4">> >>

\* [(i,i+21) for i in range(21)]
th_flip_pairs == [k \in 1..21 |-> <<k - 1, k - 1 + 21>>]

(***************************************************************************)
(* vis.py: vis_keypoints_with_skeleton(img, kps, kps_lines, color=None),    *)
(* called with kps_lines = mano.sh_skeleton as in demo.py.                  *)
(***************************************************************************)
None == [none |-> TRUE]

\* a color tuple (b, g, r) of numbers
BGR(b, g, r) == [b |-> [const |-> b], g |-> [const |-> g], r |-> [const |-> r]]

\* cmap(i) of plt.get_cmap('rainbow') at the k-th of m evenly spaced points
\* of [0, 1]: an RGBA value of the colormap, kept symbolic.
cmap_rainbow(k, m) == [cmap |-> "rainbow", at |-> k, of |-> m]

\* (c[2] * 255, c[1] * 255, c[0] * 255)
RainbowBGR(c) ==
    [b |-> [rgba |-> c, ch |-> 2, times |-> 255],
     g |-> [rgba |-> c, ch |-> 1, times |-> 255],
     r |-> [rgba |-> c, ch |-> 0, times |-> 255]]

\* lines 17-19: the colors list built when color is None
RainbowColors(n) == [k \in 1..(n + 2) |-> RainbowBGR(cmap_rainbow(k - 1, n + 2))]

\* lines 15-20: the list colors the drawing loop reads; line 20 runs
\* whether or not color is None and replaces the list of lines 17-19
vis_colors_list(color, skeleton_num) ==
    LET colors == IF color = None THEN RainbowColors(skeleton_num) ELSE <<>>
    IN [k \in 1..skeleton_num |-> color]

\* ndarray.astype(np.int32) of a value in tenths: truncation toward zero
AsInt32(v) == IF v >= 0 THEN v \div 10 ELSE -((-v) \div 10)

\* demo.py: purple for the right hand, green for the left
DemoColors == {BGR(255, 0, 255), BGR(102, 255, 102)}

KpsChoices ==
    {[i \in 1..sh_joint_num |-> <<15 * i + d, d - 7 * i>>] : d \in {0, 4}}

VisInit ==
    /\ vis_pc = "call"
    /\ vis_color \in DemoColors \cup {None}
    /\ vis_kps \in KpsChoices
    /\ vis_colors = <<>>
    /\ vis_l = 0
    /\ vis_drawn = <<>>

VisIdle ==
    /\ vis_pc = "idle"
    /\ vis_color = None
    /\ vis_kps = <<>>
    /\ vis_colors = <<>>
    /\ vis_l = 0
    /\ vis_drawn = <<>>

\* lines 14-23: build colors, copy the image
VisCall ==
    /\ vis_pc = "call"
    /\ vis_colors' = vis_colors_list(vis_color, Len(sh_skeleton))
    /\ vis_l' = 0
    /\ vis_drawn' = <<>>
    /\ vis_pc' = "loop"
    /\ UNCHANGED <<vis_color, vis_kps>>
    /\ UNCHANGED <<cl_vars, aa_vars, pl_vars>>

\* lines 26-39: one iteration of the drawing loop.  kps[i] with i beyond the
\* rows of kps raises IndexError; what cv2 does with a color of None is not
\* in the source: the call either draws or raises.
VisDrawLine ==
    /\ vis_pc = "loop"
    /\ vis_l < Len(sh_skeleton)
    /\ LET i1 == sh_skeleton[vis_l + 1][1]
           i2 == sh_skeleton[vis_l + 1][2]
       IN IF i1 >= Len(vis_kps) \/ i2 >= Len(vis_kps)
          THEN /\ vis_pc' = "raised"
               /\ UNCHANGED <<vis_l, vis_drawn>>
          ELSE LET p1 == <<AsInt32(vis_kps[i1 + 1][1]), AsInt32(vis_kps[i1 + 1][2])>>
                   p2 == <<AsInt32(vis_kps[i2 + 1][1]), AsInt32(vis_kps[i2 + 1][2])>>
                   line == [i1 |-> i1, i2 |-> i2, p1 |-> p1, p2 |-> p2,
                            color |-> vis_colors[vis_l + 1]]
               IN /\ vis_drawn' = Append(vis_drawn, line)
                  /\ vis_l' = vis_l + 1
                  /\ \/ vis_pc' = "loop"
                     \/ vis_colors[vis_l + 1] = None /\ vis_pc' = "raised"
    /\ UNCHANGED <<vis_color, vis_kps, vis_colors>>
    /\ UNCHANGED <<cl_vars, aa_vars, pl_vars>>

\* line 42: the blend returns kp_mask (weights 0.0 and 1.0)
VisReturn ==
    /\ vis_pc = "loop"
    /\ vis_l = Len(sh_skeleton)
    /\ vis_pc' = "done"
    /\ UNCHANGED <<vis_color, vis_kps, vis_colors, vis_l, vis_drawn>>
    /\ UNCHANGED <<cl_vars, aa_vars, pl_vars>>

InitCoordLoss == CoordLossInit /\ VisIdle /\ ConvIdle /\ PoseLossIdle

NextCoordLoss == CoordLossForward

SpecCoordLoss == InitCoordLoss /\ [][NextCoordLoss]_vars

InitVis == VisInit /\ CoordLossIdle /\ ConvIdle /\ PoseLossIdle

NextVis == VisCall \/ VisDrawLine \/ VisReturn

SpecVis == InitVis /\ [][NextVis]_vars

InitConv == ConvInit /\ CoordLossIdle /\ VisIdle /\ PoseLossIdle

NextConv == AxisAngleToMatrix \/ MatrixToAxisAngle

SpecConv == InitConv /\ [][NextConv]_vars

InitPoseLoss == PoseLossInit /\ CoordLossIdle /\ VisIdle /\ ConvIdle

NextPoseLoss == PoseLossForward

SpecPoseLoss == InitPoseLoss /\ [][NextPoseLoss]_vars

(***************************************************************************)
(* Properties of CoordLoss.forward (checked under SpecCoordLoss).          *)
(***************************************************************************)
Returned == cl_pc = "done"

Items == 1..Len(coord_out)

Joints(b) == 1..Len(coord_out[b])

AllValidZero == \A b \in Items : \A j \in Joints(b) : \A c \in 1..3 : valid[b][j][c] = Fin(0)

\* |coord_out - coord_gt| at one coordinate, before any mask
AbsDiff(b, j, c) == FAbs(FSub(coord_out[b][j][c], coord_gt[b][j][c]))

AllDiffFinite == \A b \in Items : \A j \in Joints(b) : \A c \in 1..3 : IsFinite(AbsDiff(b, j, c))

SameShape ==
    /\ Len(cl_loss) = Len(coord_out)
    /\ \A b \in Items : /\ Len(cl_loss[b]) = Len(coord_out[b])
                        /\ \A j \in Joints(b) : Len(cl_loss[b][j]) = 3

AllLossZero == \A b \in Items : \A j \in Joints(b) : \A c \in 1..3 : cl_loss[b][j][c] = Fin(0)

\* C1, as stated: with valid all-zero the loss is all-zero, of the shape of
\* the input, for every finite coord_out and coord_gt and every is_3D.
C1_AllFinite == (Returned /\ AllValidZero) => (SameShape /\ AllLossZero)

\* C1, amended: with valid all-zero the loss is all-zero, of the shape of the
\* input, for every is_3D and every finite coord_out and coord_gt whose
\* difference is finite too (does not overflow the float format).
C1_Masking == (Returned /\ AllValidZero /\ AllDiffFinite) => (SameShape /\ AllLossZero)

\* a returned all-zero-mask call whose outputs differ from the ground truth
\* in every joint, with a nonzero is_3D flag
C1_Witness ==
    /\ Returned /\ AllValidZero /\ AllDiffFinite
    /\ \A b \in Items : \A j \in Joints(b) : coord_out[b][j][3] # coord_gt[b][j][3]
    /\ \E b \in Items : is_3D[b] # 0

\* the x and y channels are |coord_out - coord_gt| * valid, whatever is_3D is
PlanarChannels ==
    \A b \in Items : \A j \in Joints(b) : \A c \in 1..2 :
        cl_loss[b][j][c] = FMul(AbsDiff(b, j, c), valid[b][j][c])

\* C2, as stated: where is_3D[b] is 0 the z channel is exactly 0 for every
\* joint, also where valid is 1 and the coordinates differ, and the x and y
\* channels are |coord_out - coord_gt| * valid independently of is_3D.
C2_ZAlwaysZero ==
    Returned =>
        /\ \A b \in Items : is_3D[b] = 0 => \A j \in Joints(b) : cl_loss[b][j][3] = Fin(0)
        /\ PlanarChannels

\* C2, amended: where is_3D[b] is 0 the z channel is exactly 0 for every
\* joint whose masked z loss |coord_out - coord_gt| * valid is finite, also
\* where valid is 1 and the coordinates differ, and the x and y channels are
\* |coord_out - coord_gt| * valid independently of is_3D.
C2_Gating ==
    Returned =>
        /\ \A b \in Items : is_3D[b] = 0 =>
              \A j \in Joints(b) :
                  IsFinite(FMul(AbsDiff(b, j, 3), valid[b][j][3])) => cl_loss[b][j][3] = Fin(0)
        /\ PlanarChannels

\* a returned call with a 2D item whose z is valid and off the ground truth
C2_Witness ==
    /\ Returned
    /\ \E b \in Items : \E j \in Joints(b) :
          /\ is_3D[b] = 0
          /\ valid[b][j][3] = Fin(1)
          /\ IsFinite(AbsDiff(b, j, 3))
          /\ AbsDiff(b, j, 3) # Fin(0)
          /\ cl_loss[b][j][1] # Fin(0)

(***************************************************************************)
(* Properties of PoseLoss.forward (checked under SpecPoseLoss).            *)
(***************************************************************************)
PoseReturned == pl_pc = "done"

PoseItems == 1..Len(pose_valid)

PoseJoints(b) == 1..Len(pose_valid[b])

\* the axis-angle vector of joint j of item b in a (B, J*3) tensor
PoseOf(pose, b, j) == SubSeq(pose[b], 3 * j - 2, 3 * j)

\* both poses of a joint have a norm float32 can hold
NormsFinite(b, j) ==
    IsNum(Norm(PoseOf(pose_out, b, j))) /\ IsNum(Norm(PoseOf(pose_gt, b, j)))

BlockZero(b, j) == \A r \in 1..3 : \A c \in 1..3 : pl_loss[b][j][r][c] = 0

BlockNonNegative(b, j) ==
    \A r \in 1..3 : \A c \in 1..3 : pl_loss[b][j][r][c] # Invalid /\ pl_loss[b][j][r][c] >= 0

PoseShape ==
    /\ Len(pl_loss) = Len(pose_valid)
    /\ \A b \in PoseItems :
          /\ Len(pl_loss[b]) = Len(pose_valid[b])
          /\ \A j \in PoseJoints(b) :
                Len(pl_loss[b][j]) = 3 /\ \A r \in 1..3 : Len(pl_loss[b][j][r]) = 3

\* C3, as stated: a joint with pose_valid 0 has all 9 entries of its block
\* exactly 0 whatever the finite poses are, and with 0/1 masks every entry is
\* non-negative.
C3_AnyFinitePose ==
    PoseReturned =>
        /\ PoseShape
        /\ \A b \in PoseItems : \A j \in PoseJoints(b) :
              /\ pose_valid[b][j] = 0 => BlockZero(b, j)
              /\ BlockNonNegative(b, j)

\* C3, amended: a joint with pose_valid 0 has all 9 entries of its block
\* exactly 0 whenever the norms of its two poses are finite in float32, and
\* with 0/1 masks every entry of such a joint is non-negative.
C3_MaskedJoint ==
    PoseReturned =>
        /\ PoseShape
        /\ \A b \in PoseItems : \A j \in PoseJoints(b) :
              NormsFinite(b, j) =>
                  /\ pose_valid[b][j] = 0 => BlockZero(b, j)
                  /\ BlockNonNegative(b, j)

\* a returned call with a masked joint whose poses differ (one of them a
\* rotation, not the identity branch) next to an unmasked joint with a loss
C3_Witness ==
    /\ PoseReturned
    /\ \E b \in PoseItems : \E j \in PoseJoints(b) :
          /\ pose_valid[b][j] = 0
          /\ NormsFinite(b, j)
          /\ PoseOf(pose_out, b, j) = GeneralVec
          /\ PoseOf(pose_gt, b, j) = QuarterTurnZ
    /\ \E b \in PoseItems : \E j \in PoseJoints(b) :
          pose_valid[b][j] = One /\ NormsFinite(b, j) /\ ~BlockZero(b, j)

\* C4, as stated: with pose_out equal to pose_gt the loss is all-zero
\* whatever the mask is.
C4_AnyIdenticalPoses ==
    (PoseReturned /\ pose_out = pose_gt) =>
        \A b \in PoseItems : \A j \in PoseJoints(b) : BlockZero(b, j)

\* C4, amended: with pose_out equal to pose_gt the loss is zero, whatever the
\* mask is, in every joint whose pose has a norm that is finite in float32.
C4_IdenticalPoses ==
    (PoseReturned /\ pose_out = pose_gt) =>
        \A b \in PoseItems : \A j \in PoseJoints(b) : NormsFinite(b, j) => BlockZero(b, j)

\* a returned call on identical poses, a rotation among them, one joint
\* masked and one not
C4_Witness ==
    /\ PoseReturned /\ pose_out = pose_gt
    /\ \A b \in PoseItems : \A j \in PoseJoints(b) : NormsFinite(b, j)
    /\ \E b \in PoseItems : \E j \in PoseJoints(b) :
          pose_valid[b][j] = One /\ PoseOf(pose_out, b, j) = QuarterTurnZ
    /\ \E b \in PoseItems : \E j \in PoseJoints(b) : pose_valid[b][j] = 0

(***************************************************************************)
(* Properties of the two conversions (checked under SpecConv).             *)
(***************************************************************************)
Converted == aa_pc \in {"matrix", "back"}

RoundTripped == aa_pc = "back"

\* the input vectors, the matrices and the vectors converted back, in a row
InVecs == Flatten(axis_angle, aa_dims)

OutMats == Flatten(aa_matrix, aa_dims)

BackVecs == Flatten(aa_back, aa_dims)

\* 1e-4 and 1e-5
Tol4 == Scale \div Myriad

Tol5 == Scale \div (10 * Myriad)

Near(a, b, tol) == IsNum(a) /\ IsNum(b) /\ Abs(a - b) <= tol

\* the angle lies in (0.01, pi - 0.01)
InRoundTripRange(angle) ==
    Less(Scale \div 100, angle) /\ Less(angle, Pi - Scale \div 100)

\* C5: for a rotation angle in (0.01, pi - 0.01) the vector obtained by
\* converting to a matrix and back agrees with the input within 1e-4 in
\* every component.
C5_RoundTrip ==
    RoundTripped =>
        /\ Len(BackVecs) = Len(InVecs)
        /\ \A k \in 1..Len(InVecs) :
              InRoundTripRange(Norm(InVecs[k])) =>
                  \A c \in 1..3 : Near(BackVecs[k][c], InVecs[k][c], Tol4)

\* a round trip of a vector with three nonzero components and an angle
\* above 3, close to the upper end of the range
C5_Witness ==
    /\ RoundTripped
    /\ \E k \in 1..Len(InVecs) :
          /\ InRoundTripRange(Norm(InVecs[k]))
          /\ Less(3 * Scale, Norm(InVecs[k]))
          /\ \A c \in 1..3 : InVecs[k][c] # 0 /\ BackVecs[k][c] # 0

\* every entry is a number of magnitude at most 1, up to the tolerance (the
\* columns of an orthonormal matrix have length 1)
AllNum(R) == \A r \in 1..3 : \A c \in 1..3 : IsNum(R[r][c]) /\ Abs(R[r][c]) <= One + Tol5

\* entry (i, j) of the transpose of R times R
Gram(R, i, j) ==
    MulRaw(R[1][i], R[1][j]) + MulRaw(R[2][i], R[2][j]) + MulRaw(R[3][i], R[3][j])

Minor(R, a, b) == MulRaw(R[2][a], R[3][b]) - MulRaw(R[2][b], R[3][a])

Det(R) ==
    MulRaw(R[1][1], Minor(R, 2, 3)) - MulRaw(R[1][2], Minor(R, 1, 3))
        + MulRaw(R[1][3], Minor(R, 1, 2))

\* the transpose of R times R is the identity and det R is 1, within 1e-5
IsRotation(R) ==
    /\ AllNum(R)
    /\ \A i \in 1..3 : \A j \in 1..3 : Abs(Gram(R, i, j) - Identity3[i][j]) <= Tol5
    /\ Abs(Det(R) - One) <= Tol5

\* C6, as stated: every matrix returned by axis_angle_to_matrix is
\* orthonormal with determinant 1 within 1e-5, for any input vector.
C6_AnyInput ==
    Converted => \A k \in 1..Len(InVecs) : IsRotation(OutMats[k])

\* C6, amended: every matrix returned by axis_angle_to_matrix for an input
\* vector whose norm is finite in float32 is orthonormal with determinant 1
\* within 1e-5, the zero vector, small angles (identity branch) and large
\* angles included.
C6_Orthonormal ==
    Converted =>
        /\ Len(OutMats) = Len(InVecs)
        /\ \A k \in 1..Len(InVecs) : IsNum(Norm(InVecs[k])) => IsRotation(OutMats[k])

\* a batch with a nonzero vector that takes the identity branch next to a
\* quarter turn, whose matrix is not the identity
C6_Witness ==
    /\ Converted
    /\ \E k \in 1..Len(InVecs) :
          /\ InVecs[k] # ZeroVec
          /\ Less(Norm(InVecs[k]), SmallAngle)
          /\ OutMats[k] = Identity3
    /\ \E k \in 1..Len(InVecs) :
          /\ InVecs[k] = QuarterTurnZ
          /\ OutMats[k] # Identity3
          /\ IsRotation(OutMats[k])

\* K = [[0, -az, ay], [az, 0, -ax], [-ay, ax, 0]] for the axis v / angle
FormulaK(v, angle) ==
    << <<0, -DivRaw(v[3], angle), DivRaw(v[2], angle)>>,
       <<DivRaw(v[3], angle), 0, -DivRaw(v[1], angle)>>,
       <<-DivRaw(v[2], angle), DivRaw(v[1], angle), 0>> >>

\* entry (r, c) of K times K
FormulaKK(K, r, c) ==
    MulRaw(K[r][1], K[1][c]) + MulRaw(K[r][2], K[2][c]) + MulRaw(K[r][3], K[3][c])

\* entry (r, c) of I + sin(angle) K + (1 - cos(angle)) K K
FormulaEntry(angle, K, r, c) ==
    Identity3[r][c] + MulRaw(SinRaw(angle), K[r][c])
        + MulRaw(One - CosRaw(angle), FormulaKK(K, r, c))

\* R is the matrix of Rodrigues' formula for v, within 1e-5; for an angle
\* that is not a number the formula has no number to give either
MatchesFormula(R, v, angle) ==
    IF IsNum(angle)
    THEN \A r \in 1..3 : \A c \in 1..3 :
             Near(R[r][c], FormulaEntry(angle, FormulaK(v, angle), r, c), Tol5)
    ELSE \A r \in 1..3 : \A c \in 1..3 : R[r][c] = Invalid

\* [[0, -1, 0], [1, 0, 0], [0, 0, 1]]
QuarterTurnMatrix == << <<0, -One, 0>>, <<One, 0, 0>>, <<0, 0, One>> >>

\* C7: for an angle of at least 1e-3 the matrix is I + sin(angle) K +
\* (1 - cos(angle)) K K with K = [[0, -az, ay], [az, 0, -ax], [-ay, ax, 0]]
\* for the unit axis a, and [0, 0, pi/2] gives [[0, -1, 0], [1, 0, 0],
\* [0, 0, 1]].
C7_Rodrigues ==
    Converted =>
        /\ \A k \in 1..Len(InVecs) :
              ~Less(Norm(InVecs[k]), SmallAngle) =>
                  MatchesFormula(OutMats[k], InVecs[k], Norm(InVecs[k]))
        /\ \A k \in 1..Len(InVecs) :
              InVecs[k] = QuarterTurnZ =>
                  \A r \in 1..3 : \A c \in 1..3 :
                      Near(OutMats[k][r][c], QuarterTurnMatrix[r][c], Tol5)

\* the conversion of the single vector [0, 0, pi/2]
C7_Witness ==
    /\ aa_pc = "matrix"
    /\ axis_angle = <<QuarterTurnZ>>
    /\ aa_matrix[1][1][2] < 0
    /\ aa_matrix[1][2][1] > 0

\* what a vector converts to when it is the only one in the batch
Alone(v) == axis_angle_to_matrix(<<v>>, <<1>>)[1]

\* the matrix the claim gives for one vector
Expected(v) == IF Less(Norm(v), SmallAngle) THEN Identity3 ELSE Alone(v)

\* C8: the small-angle override is decided for each entry of the batch on
\* its own: an entry with angle below 1e-3, the zero vector included, is
\* exactly the identity, every other entry keeps its own Rodrigues result,
\* and the batch keeps its shape and order.
C8_PerEntry ==
    Converted =>
        /\ Len(aa_matrix) = Len(axis_angle)
        /\ \A b \in 1..Len(axis_angle) :
              IF Len(aa_dims) = 1
              THEN aa_matrix[b] = Expected(axis_angle[b])
              ELSE /\ Len(aa_matrix[b]) = Len(axis_angle[b])
                   /\ \A n \in 1..Len(axis_angle[b]) :
                         aa_matrix[b][n] = Expected(axis_angle[b][n])

\* a (B, N, 3) batch with the zero vector before a quarter turn: an
\* identity next to a matrix that is not
C8_Witness ==
    /\ Converted
    /\ aa_dims = <<1, 2>>
    /\ axis_angle[1] = <<ZeroVec, QuarterTurnZ>>
    /\ aa_matrix[1][1] = Identity3
    /\ aa_matrix[1][2] # Identity3

(***************************************************************************)
(* Properties of the hand skeleton and of its drawing (checked under       *)
(* SpecVis).                                                               *)
(***************************************************************************)
JointIds == 0..(sh_joint_num - 1)

Edges == 1..Len(sh_skeleton)

\* the joints one edge away from a joint of S, together with S
Step(S) == S \cup {sh_skeleton[e][2] : e \in {d \in Edges : sh_skeleton[d][1] \in S}}

\* the joints reached from S along the edges, parent to child
RECURSIVE Reach(_)
Reach(S) == IF Step(S) = S THEN S ELSE Reach(Step(S))

\* 20 edges over 21 joints, every endpoint a joint, every joint but the
\* wrist the child of exactly one edge, every joint reached from the wrist
IsTree ==
    /\ sh_joint_num = Len(sh_joints_name)
    /\ sh_root_joint_idx = 0
    /\ Len(sh_skeleton) = sh_joint_num - 1
    /\ \A e \in Edges : sh_skeleton[e][1] \in JointIds /\ sh_skeleton[e][2] \in JointIds
    /\ \A j \in JointIds \ {sh_root_joint_idx} :
          Cardinality({e \in Edges : sh_skeleton[e][2] = j}) = 1
    /\ \A e \in Edges : sh_skeleton[e][2] # sh_root_joint_idx
    /\ Reach({sh_root_joint_idx}) = JointIds

\* the drawing loop reads rows of kps that exist
InsideKps ==
    /\ vis_pc = "loop" /\ vis_l < Len(sh_skeleton) =>
          /\ sh_skeleton[vis_l + 1][1] < Len(vis_kps)
          /\ sh_skeleton[vis_l + 1][2] < Len(vis_kps)
    /\ \A k \in 1..Len(vis_drawn) :
          /\ vis_drawn[k].i1 = sh_skeleton[k][1] /\ vis_drawn[k].i1 \in 0..(Len(vis_kps) - 1)
          /\ vis_drawn[k].i2 = sh_skeleton[k][2] /\ vis_drawn[k].i2 \in 0..(Len(vis_kps) - 1)
    /\ vis_color # None => vis_pc # "raised"

\* pair i joins the right joint i and the left joint i + 21 of the same name
FlipPairsMatch ==
    /\ th_joint_num = Len(th_joints_name)
    /\ th_joint_num = 2 * sh_joint_num
    /\ Len(th_flip_pairs) = sh_joint_num
    /\ \A k \in 1..Len(th_flip_pairs) :
          /\ th_flip_pairs[k] = <<k - 1, k - 1 + sh_joint_num>>
          /\ th_joints_name[th_flip_pairs[k][1] + 1] = <<"R", sh_joints_name[k]>>
          /\ th_joints_name[th_flip_pairs[k][2] + 1] = <<"L", sh_joints_name[k]>>

\* C9: sh_skeleton is a tree over the 21 joints rooted at the wrist (20
\* edges, endpoints in [0, 21), each joint but the wrist a child exactly
\* once, all reached from joint 0), so the drawing never reads outside a
\* 21-row kps, and th_flip_pairs pairs right joint i with the left joint
\* i + 21 of the same name.
C9_SkeletonTree == IsTree /\ InsideKps /\ FlipPairsMatch

\* a drawing of the whole skeleton that returned: all 20 lines drawn, the
\* last one ending at joint 20
C9_Witness ==
    /\ vis_pc = "done"
    /\ Len(vis_kps) = sh_joint_num
    /\ Len(vis_drawn) = Len(sh_skeleton)
    /\ vis_drawn[Len(vis_drawn)].i2 = sh_joint_num - 1

\* C10: with color None every line is drawn in its own color of the
\* rainbow, with a color passed every line is drawn in that color, and no
\* line is drawn with a color of None.
C10_LineColors ==
    \A k \in 1..Len(vis_drawn) :
        /\ vis_drawn[k].color # None
        /\ vis_color = None => vis_drawn[k].color = RainbowColors(Len(sh_skeleton))[k]
        /\ vis_color # None => vis_drawn[k].color = vis_color

====
